---- MODULE Spec2Model ----
(***************************************************************************)
(* Model of package logging (config.go, logging.go, middleware.go):        *)
(* severity filtering in zlog, the key/value encoder parseLabels, the      *)
(* access-log entry point HTTP and the gin middleware RequestLogger.       *)
(*                                                                         *)
(* A Go string is a sequence of one-character strings, so that             *)
(* strings.Split, strconv.Itoa and string([]byte) are computed rather      *)
(* than assumed.                                                           *)
(***************************************************************************)
EXTENDS Integers, Sequences, FiniteSets, TLC

----------------------------------------------------------------------------
(* Bounds of the model.                                                    *)

\* Level is a uint; the model lets levels and thresholds range over 0..MaxLevel.
MaxLevel == 7
\* Longest argument list handed to parseLabels under SpecEncode.
MaxLen == 4
\* Longest keysAndValues list handed to Infow/Errorw under Spec.
MaxKv == 2

----------------------------------------------------------------------------
(* config.go: the Level enumeration.                                       *)

LevelFirst == 0
LevelCritical == 1
LevelError == 2
LevelWarn == 3
LevelInfo == 4
LevelDebug == 5
LevelLast == 6

Levels == 0..MaxLevel

----------------------------------------------------------------------------
(* Go strings used by the package.                                         *)

EmptyStr == <<>>
StrError == <<"e", "r", "r", "o", "r">>
StrErr == <<"e", "r", "r">>
StrK == <<"k">>
StrRequestID == <<"r", "e", "q", "u", "e", "s", "t", "_", "i", "d">>
StrUserID == <<"u", "s", "e", "r", "_", "i", "d">>
StrScope == <<"s", "c", "o", "p", "e">>
StrRemoteIP == <<"r", "e", "m", "o", "t", "e", "_", "i", "p">>
StrRoute == <<"r", "o", "u", "t", "e">>
StrRequestLog == <<"r", "e", "q", "u", "e", "s", "t", " ", "l", "o", "g">>

\* strconv.Itoa: canonical base-10 rendering.
Digit(d) == <<"0", "1", "2", "3", "4", "5", "6", "7", "8", "9">>[d + 1]

RECURSIVE ItoaNat(_)
ItoaNat(n) == IF n < 10 THEN <<Digit(n)>> ELSE ItoaNat(n \div 10) \o <<Digit(n % 10)>>

Itoa(n) == IF n < 0 THEN <<"-">> \o ItoaNat(0 - n) ELSE ItoaNat(n)

\* string(b) for a byte slice b: each byte becomes the character it encodes.
Chr(b) == CASE b = 104 -> "h" [] b = 105 -> "i" [] OTHER -> "?"

BytesToString(b) == [i \in DOMAIN b |-> Chr(b[i])]

----------------------------------------------------------------------------
(* Values of type interface{}: a dynamic type tag t, a nil flag for the    *)
(* pointer types, and the payload v.                                       *)

VString(s) == [t |-> "string", isnil |-> FALSE, v |-> s]
VStringPtr(s) == [t |-> "*string", isnil |-> FALSE, v |-> s]
VNilStringPtr == [t |-> "*string", isnil |-> TRUE, v |-> EmptyStr]
VBytes(b) == [t |-> "[]byte", isnil |-> FALSE, v |-> b]
VBytesPtr(b) == [t |-> "*[]byte", isnil |-> FALSE, v |-> b]
VNilBytesPtr == [t |-> "*[]byte", isnil |-> TRUE, v |-> <<>>]
VInt(n) == [t |-> "int", isnil |-> FALSE, v |-> n]
VInt32(n) == [t |-> "int32", isnil |-> FALSE, v |-> n]
VInt64(n) == [t |-> "int64", isnil |-> FALSE, v |-> n]
VInt8(n) == [t |-> "int8", isnil |-> FALSE, v |-> n]
VBool(b) == [t |-> "bool", isnil |-> FALSE, v |-> b]
VError(msg) == [t |-> "error", isnil |-> FALSE, v |-> msg]
VNil == [t |-> "nil", isnil |-> TRUE, v |-> <<>>]

\* fmt.Sprintf("%+v", v) for the types that reach the default branch.
SprintfV(val) ==
  CASE val.t = "bool" -> (IF val.v THEN <<"t", "r", "u", "e">> ELSE <<"f", "a", "l", "s", "e">>)
    [] val.t \in {"int", "int8", "int32", "int64"} -> Itoa(val.v)
    [] val.t \in {"string", "*string"} /\ ~val.isnil -> val.v
    [] val.t = "error" -> val.v
    [] val.t = "nil" -> <<"<", "n", "i", "l", ">">>
    [] OTHER -> <<"?">>

\* zapdriver.Label(key, value): one string field of the record.
Label(key, value) == [kind |-> "label", key |-> key, value |-> value]

----------------------------------------------------------------------------
(* State.                                                                  *)

VARIABLES
  logLevel,      \* logging.go: var logLevel
  projectID,     \* logging.go: var projectID
  keyRequestID,  \* logging.go: var keyRequestID
  keyUserID,     \* logging.go: var keyUserID
  keyError,      \* logging.go: var keyError
  keyScope,      \* logging.go: var keyScope
  zlogger,       \* logging.go: var zlogger ("nil" until Initialize builds one)
  initCalled,    \* Initialize has run (it runs once, at process start)
  terminated,    \* the process has exited (os.Exit inside zlogger.Fatal)
  last,          \* the most recent log call: its arguments and what it did
  req,           \* middleware: the request being served (ctx.Request)
  pc,            \* middleware: position of the request in the handler chain
  index,         \* middleware: gin's index into the handler chain
  mwWaiting,     \* middleware: RequestLogger is suspended inside ctx.Next()
  remoteIP,      \* middleware: the local variable remoteIP
  handlerRuns,   \* middleware: times the wrapped handler ran for this request
  seenIP,        \* middleware: true-client-ip as read by the wrapped handler
  status,        \* middleware: ctx.Writer.Status()
  accessLog,     \* middleware: Sink events of HTTP for this request
  arrived,       \* middleware: the headers the request arrived with
  args,          \* SpecEncode: the argument list under study
  fields,        \* SpecEncode: the result of parseLabels(args)
  encPc          \* SpecEncode: position of the encoder study

pkgVars == <<logLevel, projectID, keyRequestID, keyUserID, keyError, keyScope, zlogger, initCalled>>
mwVars == <<req, pc, index, mwWaiting, remoteIP, handlerRuns, seenIP, status, accessLog, arrived>>
encVars == <<args, fields, encPc>>
vars == <<pkgVars, terminated, last, mwVars, encVars>>

----------------------------------------------------------------------------
(* logging.go: parseLabels.                                                *)

\* The inner type switch on the value (lines 146-167).
encodeValue(keyStr, val) ==
  CASE val.t = "string" -> <<Label(keyStr, val.v)>>
    [] val.t = "*string" -> (IF ~val.isnil THEN <<Label(keyStr, val.v)>> ELSE <<>>)
    [] val.t = "[]byte" -> <<Label(keyStr, BytesToString(val.v))>>
    [] val.t = "*[]byte" -> (IF ~val.isnil THEN <<Label(keyStr, BytesToString(val.v))>> ELSE <<>>)
    [] val.t = "int" -> <<Label(keyStr, Itoa(val.v))>>
    [] val.t = "int32" -> <<Label(keyStr, Itoa(val.v))>>
    [] val.t = "int64" -> <<Label(keyStr, Itoa(val.v))>>
    [] OTHER -> <<Label(keyStr, SprintfV(val))>>

\* case "error", keyError (line 141).
isErrorKey(keyStr) == keyStr = StrError \/ keyStr = keyError

\* encodeError with a stringified fallback for values that are not errors.
encodeErrorFallback(val) ==
  IF val.t = "error" THEN <<Label(keyError, val.v)>> ELSE <<Label(keyError, SprintfV(val))>>

\* The error-key branch (lines 141-144).
encodeError(val) ==
  IF val.t = "error" THEN <<Label(keyError, val.v)>> ELSE <<>>

\* One iteration of the loop body on the pair (key, val) (lines 138-169).
encodePair(key, val) ==
  IF key.t = "string"
    THEN IF isErrorKey(key.v) THEN encodeError(val) ELSE encodeValue(key.v, val)
    ELSE <<>>

\* parseLoop without the break on a trailing key: the key gets an empty value.
RECURSIVE parseLoopKeepTrailing(_, _, _)
parseLoopKeepTrailing(a, i, acc) ==
  IF i > Len(a) THEN acc
  ELSE IF i = Len(a) THEN acc \o encodePair(a[i], VString(EmptyStr))
  ELSE parseLoopKeepTrailing(a, i + 2, acc \o encodePair(a[i], a[i + 1]))

\* parseLoop putting each new field in front of the earlier ones.
RECURSIVE parseLoopPrepend(_, _, _)
parseLoopPrepend(a, i, acc) ==
  IF i > Len(a) THEN acc
  ELSE IF i = Len(a) THEN acc
  ELSE parseLoopPrepend(a, i + 2, encodePair(a[i], a[i + 1]) \o acc)

\* The loop (lines 134-171); i is the 1-based index of the next key.
RECURSIVE parseLoop(_, _, _)
parseLoop(a, i, acc) ==
  IF i > Len(a) THEN acc
  ELSE IF i = Len(a) THEN acc
  ELSE parseLoop(a, i + 2, acc \o encodePair(a[i], a[i + 1]))

parseLabels(a) == IF Len(a) = 0 THEN <<>> ELSE parseLoop(a, 1, <<>>)

----------------------------------------------------------------------------
(* Inputs of the log calls.                                                *)

\* TraceID().String() and SpanID().String() of a context without a span.
ZeroTraceID == <<"0", "0">>
ZeroSpanID == <<"0">>

NoValues == [k \in {} |-> VNil]

\* A context without trace and values, and one carrying a span, a user id and a scope.
CtxInputs ==
  { [traceID |-> ZeroTraceID, spanID |-> ZeroSpanID, values |-> NoValues],
    [traceID |-> <<"t", "1">>, spanID |-> <<"s", "1">>,
     values |-> (StrUserID :> VString(<<"u">>)) @@ (StrScope :> VString(<<"a">>))] }

\* ctx.Value(key)
ctxValue(ctx, key) == IF key \in DOMAIN ctx.values THEN ctx.values[key] ELSE VNil

\* The format and arguments handed to the formatting calls; "%v" is one verb.
Fmt == <<"m", "=", "%v">>
FmtArgs == <<VInt8(3)>>
Msg == <<"m">>

RECURSIVE Sprintf(_, _)
Sprintf(f, a) ==
  IF f = <<>> THEN <<>>
  ELSE IF Head(f) = "%v"
    THEN (IF a = <<>> THEN <<"%!v(MISSING)">> ELSE SprintfV(Head(a)))
         \o Sprintf(Tail(f), IF a = <<>> THEN a ELSE Tail(a))
    ELSE <<Head(f)>> \o Sprintf(Tail(f), a)

RECURSIVE SeqsUpTo(_, _)
SeqsUpTo(S, n) ==
  IF n = 0 THEN {<<>>}
  ELSE LET shorter == SeqsUpTo(S, n - 1)
       IN shorter \cup {Append(q, x) : q \in {r \in shorter : Len(r) = n - 1}, x \in S}

KvItems == {VString(StrK), VError(<<"b">>)}
KvInputs == SeqsUpTo(KvItems, MaxKv)

----------------------------------------------------------------------------
(* The Sink: the methods of zlogger called by the package.                 *)

SinkWrite(sev, msg, fs) == [ev |-> "write", sev |-> sev, msg |-> msg, fields |-> fs]
SinkSync == [ev |-> "sync", sev |-> "", msg |-> <<>>, fields |-> <<>>]

\* zlogger.Fatal writes the entry, syncs and exits the process; the other
\* methods write the entry and return.
zloggerCall(sev, msg, fs) ==
  IF sev = "fatal"
    THEN [sink |-> <<SinkWrite(sev, msg, fs), SinkSync>>, exited |-> TRUE]
    ELSE [sink |-> <<SinkWrite(sev, msg, fs)>>, exited |-> FALSE]

----------------------------------------------------------------------------
(* logging.go: zlog.                                                       *)

\* The guard of zlog without the test against LevelLast.
zlogFilteredNoLast(level) == level <= LevelFirst \/ level > logLevel

\* The guard of zlog (line 176).
zlogFiltered(level) == level <= LevelFirst \/ level >= LevelLast \/ level > logLevel

\* zapdriver.TraceContext(requestID, spanID, true, projectID)
TraceContext(requestID, spanID, pid) ==
  << [kind |-> "trace", key |-> <<"t", "r", "a", "c", "e">>, value |-> pid \o <<"/">> \o requestID],
     [kind |-> "trace", key |-> <<"s", "p", "a", "n">>, value |-> spanID],
     [kind |-> "trace", key |-> <<"s", "a", "m", "p", "l", "e", "d">>, value |-> <<"t", "r", "u", "e">>] >>

\* zapdriver.SourceLocation(runtime.Caller(2))
SourceLocation == [kind |-> "source", key |-> <<"s", "r", "c">>, value |-> <<"c", "a", "l", "l", "e", "r">>]

\* The fields read from the context, shared by zlog (lines 187-199) and HTTP (lines 78-89).
contextFields(ctx) ==
  (IF projectID # EmptyStr THEN TraceContext(ctx.traceID, ctx.spanID, projectID) ELSE <<>>)
  \o (IF ctxValue(ctx, keyUserID).t = "string"
        THEN <<Label(keyUserID, ctxValue(ctx, keyUserID).v)>> ELSE <<>>)
  \o (IF ctxValue(ctx, keyScope).t = "string"
        THEN <<Label(keyScope, ctxValue(ctx, keyScope).v)>> ELSE <<>>)

\* The switch on level (lines 202-213).
zlogSeverity(level) ==
  CASE level = LevelInfo -> "info"
    [] level = LevelError -> "error"
    [] level = LevelCritical -> "fatal"
    [] level = LevelWarn -> "warn"
    [] OTHER -> "debug"

\* What one call of zlog does: the Sink events, the lookups it performed and
\* whether the process exited inside it.
NoWork ==
  [sink |-> <<>>, exited |-> FALSE, traceCalls |-> 0, valueCalls |-> 0,
   callerCalls |-> 0, parseCalls |-> 0, sprintfCalls |-> 0]

\* zlog doing the formatting and the context lookups before the guard.
zlogEager(ctx, level, format, fargs, keysAndValues) ==
  LET msg == Sprintf(format, fargs)
      fs == <<Label(keyRequestID, ctx.traceID), SourceLocation>>
            \o contextFields(ctx) \o parseLabels(keysAndValues)
      out == zloggerCall(zlogSeverity(level), msg, fs)
  IN IF zlogFiltered(level)
       THEN [NoWork EXCEPT !.traceCalls = 2, !.valueCalls = 2, !.callerCalls = 1,
                           !.parseCalls = 1, !.sprintfCalls = 1]
       ELSE [sink |-> out.sink, exited |-> out.exited, traceCalls |-> 2, valueCalls |-> 2,
             callerCalls |-> 1, parseCalls |-> 1, sprintfCalls |-> 1]

zlog(ctx, level, format, fargs, keysAndValues) ==
  IF zlogFiltered(level) THEN NoWork
  ELSE LET msg == Sprintf(format, fargs)
           fs == <<Label(keyRequestID, ctx.traceID), SourceLocation>>
                 \o contextFields(ctx) \o parseLabels(keysAndValues)
           out == zloggerCall(zlogSeverity(level), msg, fs)
       IN [sink |-> out.sink, exited |-> out.exited, traceCalls |-> 2, valueCalls |-> 2,
           callerCalls |-> 1, parseCalls |-> 1, sprintfCalls |-> 1]

----------------------------------------------------------------------------
(* net/http and strings helpers used by the middleware.                    *)

HeaderNames == {"X-Forwarded-For", "True-Client-Ip"}

\* textproto.CanonicalMIMEHeaderKey on the keys the package uses.
CanonicalKey(k) ==
  CASE k = "x-forwarded-for" -> "X-Forwarded-For"
    [] k = "true-client-ip" -> "True-Client-Ip"
    [] OTHER -> k

\* Header.Get: the first value under the canonical key, "" when there is none.
HeaderGet(h, k) == IF h[CanonicalKey(k)] = <<>> THEN EmptyStr ELSE h[CanonicalKey(k)][1]

\* Header.Add: appends to the values under the canonical key.
HeaderAdd(h, k, v) == [h EXCEPT ![CanonicalKey(k)] = Append(@, v)]

\* strings.Split(s, sep) for a one-character separator.
RECURSIVE Split(_, _)
Split(s, sep) ==
  LET hits == {i \in DOMAIN s : s[i] = sep}
  IN IF hits = {} THEN <<s>>
     ELSE LET i == CHOOSE j \in hits : \A k \in hits : j <= k
          IN <<SubSeq(s, 1, i - 1)>> \o Split(SubSeq(s, i + 1, Len(s)), sep)

\* time.Duration.String() on whole milliseconds.
DurationString(ms) == IF ms = 0 THEN <<"0", "s">> ELSE Itoa(ms) \o <<"m", "s">>

----------------------------------------------------------------------------
(* Inputs of the middleware.                                               *)

PathHealth == <<"/", "h">>
PathHealthSlash == <<"/", "h", "/">>

\* The exclusion list given to RequestLogger.
Excludes == <<PathHealth>>

EscapedPaths == {PathHealth, PathHealthSlash}

\* Values of the X-Forwarded-For header on arrival: absent, a chain of two,
\* a chain with an empty first component, present but empty.
XffInputs == { <<>>, << <<"a", ",", "b">> >>, << <<",", "a">> >>, << EmptyStr >> }

\* Values of a client-supplied true-client-ip header: absent, or spoofed.
TciInputs == { <<>>, << <<"e">> >> }

\* Remote addresses host:port, one with an IPv4-like host and one whose host
\* contains colons.
Port == <<"4">>
Hosts == { <<"c">>, <<"[", ":", ":", "1", "]">> }
RemoteAddrs == {h \o <<":">> \o Port : h \in Hosts}

Statuses == {200, 500}
Latencies == {0, 2}

NoReq ==
  [escapedPath |-> EmptyStr, header |-> [n \in HeaderNames |-> <<>>],
   remoteAddr |-> EmptyStr, ctx |-> CHOOSE c \in CtxInputs : c.values = NoValues]

Requests ==
  { [escapedPath |-> p, header |-> ("X-Forwarded-For" :> x) @@ ("True-Client-Ip" :> t),
     remoteAddr |-> ra, ctx |-> c] :
      p \in EscapedPaths, x \in XffInputs, t \in TciInputs, ra \in RemoteAddrs,
      c \in CtxInputs }

----------------------------------------------------------------------------
(* logging.go: HTTP.                                                       *)

\* zapdriver.HTTP(payload) with payload.Latency = latency.String()
HTTPPayload(r, st, latency) ==
  [kind |-> "http", key |-> <<"h", "t", "t", "p">>,
   value |-> Itoa(st) \o <<" ">> \o DurationString(latency)]

\* HTTP passing through the threshold test of the leveled calls.
HTTPFiltered(ctx, r, st, path, latency) ==
  LET fs == << HTTPPayload(r, st, latency),
               Label(keyRequestID, ctx.traceID),
               Label(StrRemoteIP, HeaderGet(r.header, "true-client-ip")),
               Label(StrRoute, path) >>
            \o contextFields(ctx)
  IN IF zlogFiltered(LevelInfo) THEN <<>> ELSE zloggerCall("info", StrRequestLog, fs).sink

\* The Sink events of HTTP(ctx, req, res, path, latency) (lines 67-92).
HTTP(ctx, r, st, path, latency) ==
  LET fs == << HTTPPayload(r, st, latency),
               Label(keyRequestID, ctx.traceID),
               Label(StrRemoteIP, HeaderGet(r.header, "true-client-ip")),
               Label(StrRoute, path) >>
            \o contextFields(ctx)
  IN zloggerCall("info", StrRequestLog, fs).sink

----------------------------------------------------------------------------
(* middleware.go: RequestLogger.                                           *)

\* requestLogExcludes, built from excludes (lines 14-17).
requestLogExcludes == {Excludes[i] : i \in DOMAIN Excludes}

\* The lookup in the exclusion map with the test inverted.
isExcludedInverted(url) == url \notin requestLogExcludes

\* The lookup in the exclusion map (line 22).
isExcluded(url) == url \in requestLogExcludes

\* The derivation of remoteIP (lines 25-31).
deriveRemoteIP(r) ==
  LET forwardChain == Split(HeaderGet(r.header, "X-Forwarded-For"), ",")
  IN IF Len(forwardChain) > 0 /\ forwardChain[1] # EmptyStr
       THEN forwardChain[1]
       ELSE Split(r.remoteAddr, ":")[1]

\* The two header injections (lines 32-33).
injectHeaders(h, ip) == HeaderAdd(HeaderAdd(h, "x-forwarded-for", ip), "true-client-ip", ip)

\* The handler chain of the route: RequestLogger at 0, the wrapped handler at 1.
Chain == <<"RequestLogger", "handler">>

\* gin's Context.Next loop: when the handler at position i returns, the index
\* moves on and, unless the chain is exhausted, the next handler is invoked.
afterReturn(i) == IF i + 1 < Len(Chain) THEN "handler" ELSE "done"

\* The framework starts serving a request: the chain is entered at RequestLogger.
ServeRequest ==
  /\ ~terminated /\ zlogger # "nil"
  /\ pc \in {"idle", "done"}
  /\ \E r \in Requests :
       /\ req' = r
       /\ arrived' = r.header
  /\ pc' = "mw"
  /\ index' = 0
  /\ mwWaiting' = FALSE
  /\ remoteIP' = EmptyStr
  /\ handlerRuns' = 0
  /\ seenIP' = EmptyStr
  /\ status' = 200
  /\ accessLog' = <<>>
  /\ UNCHANGED <<pkgVars, terminated, last, encVars>>

\* RequestLogger up to its return (excluded path) or its call of ctx.Next()
\* (lines 20-35).
RequestLoggerStart ==
  /\ ~terminated /\ pc = "mw"
  /\ IF isExcluded(req.escapedPath)
       THEN /\ index' = index + 1
            /\ pc' = afterReturn(index)
            /\ UNCHANGED <<req, remoteIP, mwWaiting>>
       ELSE /\ remoteIP' = deriveRemoteIP(req)
            /\ req' = [req EXCEPT !.header = injectHeaders(@, deriveRemoteIP(req))]
            /\ mwWaiting' = TRUE
            /\ index' = index + 1
            /\ pc' = "handler"
  /\ UNCHANGED <<pkgVars, terminated, last, handlerRuns, seenIP, status, accessLog, arrived, encVars>>

\* The wrapped handler runs: it reads true-client-ip and sets the status.
WrappedHandler ==
  /\ ~terminated /\ pc = "handler"
  /\ handlerRuns' = handlerRuns + 1
  /\ seenIP' = HeaderGet(req.header, "true-client-ip")
  /\ \E st \in Statuses : status' = st
  /\ index' = index + 1
  /\ pc' = IF mwWaiting THEN "resume" ELSE afterReturn(index)
  /\ UNCHANGED <<pkgVars, terminated, last, req, mwWaiting, remoteIP, accessLog, arrived, encVars>>

\* RequestLogger after ctx.Next() has returned (lines 36-45).
RequestLoggerComplete ==
  /\ ~terminated /\ pc = "resume"
  /\ \E latency \in Latencies :
       accessLog' = accessLog \o HTTP(req.ctx, req, status, req.escapedPath, latency)
  /\ mwWaiting' = FALSE
  /\ index' = index + 1
  /\ pc' = afterReturn(index)
  /\ UNCHANGED <<pkgVars, terminated, last, req, remoteIP, handlerRuns, seenIP, status, arrived, encVars>>

----------------------------------------------------------------------------
(* logging.go: Initialize, Finalize and the leveled log functions.         *)

NilConfig == [isNil |-> TRUE, ProjectID |-> EmptyStr, Level |-> 0, Development |-> FALSE,
              KeyRequestID |-> EmptyStr, KeyUserID |-> EmptyStr, KeyError |-> EmptyStr,
              KeyScope |-> EmptyStr]

KeyErrorNames == {StrErr, StrK}

Configs ==
  { [isNil |-> FALSE, ProjectID |-> p, Level |-> l, Development |-> d,
     KeyRequestID |-> StrRequestID, KeyUserID |-> StrUserID, KeyError |-> ke,
     KeyScope |-> StrScope] :
      p \in {EmptyStr, <<"p">>}, l \in Levels, d \in BOOLEAN, ke \in KeyErrorNames }

\* Which logger Initialize builds (lines 43-51).
buildLogger(pid, c) ==
  IF pid = EmptyStr THEN "development"
  ELSE IF c.Development THEN "zapdriverDevelopment" ELSE "zapdriverProduction"

Initialize ==
  /\ ~terminated /\ ~initCalled
  /\ \E c \in Configs \cup {NilConfig}, built \in BOOLEAN :
       /\ IF ~c.isNil
            THEN /\ logLevel' = c.Level
                 /\ projectID' = c.ProjectID
                 /\ keyRequestID' = c.KeyRequestID
                 /\ keyUserID' = c.KeyUserID
                 /\ keyError' = c.KeyError
                 /\ keyScope' = c.KeyScope
            ELSE UNCHANGED <<logLevel, projectID, keyRequestID, keyUserID, keyError, keyScope>>
       /\ zlogger' = IF built THEN buildLogger(projectID', c) ELSE "nil"
  /\ initCalled' = TRUE
  /\ UNCHANGED <<terminated, last, mwVars, encVars>>

NoCall == [fn |-> "none", level |-> 0, ctx |-> NoReq.ctx, kv |-> <<>>, res |-> NoWork]

Finalize ==
  /\ ~terminated /\ initCalled
  /\ last' = [fn |-> "Finalize", level |-> 0, ctx |-> NoReq.ctx, kv |-> <<>>,
              res |-> [NoWork EXCEPT !.sink = IF zlogger # "nil" THEN <<SinkSync>> ELSE <<>>]]
  /\ UNCHANGED <<pkgVars, terminated, mwVars, encVars>>

\* One call of a log function: fn calls zlog(ctx, level, format, fargs, kv).
logCall(fn, ctx, level, format, fargs, kv) ==
  /\ ~terminated /\ zlogger # "nil"
  /\ last' = [fn |-> fn, level |-> level, ctx |-> ctx, kv |-> kv,
              res |-> zlog(ctx, level, format, fargs, kv)]
  /\ terminated' = zlog(ctx, level, format, fargs, kv).exited
  /\ UNCHANGED <<pkgVars, mwVars>>

Critical == \E ctx \in CtxInputs : logCall("Critical", ctx, LevelCritical, Fmt, FmtArgs, <<>>) /\ UNCHANGED encVars
Error == \E ctx \in CtxInputs : logCall("Error", ctx, LevelError, Fmt, FmtArgs, <<>>) /\ UNCHANGED encVars
Errorw == \E ctx \in CtxInputs, kv \in KvInputs : logCall("Errorw", ctx, LevelError, Msg, <<>>, kv) /\ UNCHANGED encVars
Warn == \E ctx \in CtxInputs : logCall("Warn", ctx, LevelWarn, Fmt, FmtArgs, <<>>) /\ UNCHANGED encVars
Info == \E ctx \in CtxInputs : logCall("Info", ctx, LevelInfo, Fmt, FmtArgs, <<>>) /\ UNCHANGED encVars
Infow == \E ctx \in CtxInputs, kv \in KvInputs : logCall("Infow", ctx, LevelInfo, Msg, <<>>, kv) /\ UNCHANGED encVars
Debug == \E ctx \in CtxInputs : logCall("Debug", ctx, LevelDebug, Fmt, FmtArgs, <<>>) /\ UNCHANGED encVars

\* zlog called from inside the package with an arbitrary Level value.
ZlogDirect == \E ctx \in CtxInputs, level \in Levels : logCall("zlog", ctx, level, Fmt, FmtArgs, <<>>) /\ UNCHANGED encVars

----------------------------------------------------------------------------
(* The specifications: Spec is the process making log calls, SpecHTTP the  *)
(* process serving requests through RequestLogger.                         *)

Init ==
  /\ logLevel = LevelDebug
  /\ projectID = EmptyStr
  /\ keyRequestID = StrRequestID
  /\ keyUserID = StrUserID
  /\ keyError = StrErr
  /\ keyScope = StrScope
  /\ zlogger = "nil"
  /\ initCalled = FALSE
  /\ terminated = FALSE
  /\ last = NoCall
  /\ req = NoReq
  /\ pc = "idle"
  /\ index = 0
  /\ mwWaiting = FALSE
  /\ remoteIP = EmptyStr
  /\ handlerRuns = 0
  /\ seenIP = EmptyStr
  /\ status = 200
  /\ accessLog = <<>>
  /\ arrived = NoReq.header
  /\ args = <<>>
  /\ fields = <<>>
  /\ encPc = "off"

Next ==
  \/ Initialize
  \/ Finalize
  \/ Critical
  \/ Error
  \/ Errorw
  \/ Warn
  \/ Info
  \/ Infow
  \/ Debug
  \/ ZlogDirect

Spec == Init /\ [][Next]_vars

NextHTTP ==
  \/ Initialize
  \/ ServeRequest
  \/ RequestLoggerStart
  \/ WrappedHandler
  \/ RequestLoggerComplete

SpecHTTP == Init /\ [][NextHTTP]_vars

----------------------------------------------------------------------------
(* SpecEncode: parseLabels and the structured log calls on every argument  *)
(* list of at most MaxLen items, in a process initialized with threshold   *)
(* LevelDebug and either error-key name.                                   *)

Items ==
  { VString(StrError), VString(StrK), VInt64(0 - 5), VStringPtr(<<"p">>),
    VNilStringPtr, VNilBytesPtr, VBytesPtr(<<104, 105>>), VError(<<"b">>), VBool(TRUE) }

ArgLists == SeqsUpTo(Items, MaxLen)

InitEncode ==
  /\ logLevel = LevelDebug
  /\ projectID = EmptyStr
  /\ keyRequestID = StrRequestID
  /\ keyUserID = StrUserID
  /\ keyError \in KeyErrorNames
  /\ keyScope = StrScope
  /\ zlogger = "development"
  /\ initCalled = TRUE
  /\ terminated = FALSE
  /\ last = NoCall
  /\ req = NoReq
  /\ pc = "idle"
  /\ index = 0
  /\ mwWaiting = FALSE
  /\ remoteIP = EmptyStr
  /\ handlerRuns = 0
  /\ seenIP = EmptyStr
  /\ status = 200
  /\ accessLog = <<>>
  /\ arrived = NoReq.header
  /\ args \in ArgLists
  /\ fields = <<>>
  /\ encPc = "ready"

\* parseLabels(args) is evaluated.
Encode ==
  /\ encPc = "ready"
  /\ fields' = parseLabels(args)
  /\ encPc' = "encoded"
  /\ UNCHANGED <<pkgVars, terminated, last, mwVars, args>>

\* Infow(ctx, msg, args...)
InfowArgs ==
  /\ encPc = "encoded"
  /\ logCall("Infow", NoReq.ctx, LevelInfo, Msg, <<>>, args)
  /\ encPc' = "logged"
  /\ UNCHANGED <<args, fields>>

\* Errorw(ctx, msg, args...)
ErrorwArgs ==
  /\ encPc = "encoded"
  /\ logCall("Errorw", NoReq.ctx, LevelError, Msg, <<>>, args)
  /\ encPc' = "logged"
  /\ UNCHANGED <<args, fields>>

NextEncode ==
  \/ Encode
  \/ InfowArgs
  \/ ErrorwArgs

SpecEncode == InitEncode /\ [][NextEncode]_vars

----------------------------------------------------------------------------
(* Properties of the leveled log calls (Spec).                             *)

LogFunctions == {"Critical", "Error", "Errorw", "Warn", "Info", "Infow", "Debug", "zlog"}

\* The positions of the records (not the syncs) among the Sink events of a call.
Writes(events) == {i \in DOMAIN events : events[i].ev = "write"}

\* C1: a leveled log call at level L under threshold T submits a record to
\* the Sink if and only if LevelFirst < L < LevelLast and L <= T; for L outside
\* the sentinels nothing is submitted, whatever T is.
C1_EmitIffRealLevelWithinThreshold ==
  last.fn \in LogFunctions =>
    /\ (Cardinality(Writes(last.res.sink)) = 1)
         <=> (LevelFirst < last.level /\ last.level < LevelLast /\ last.level <= logLevel)
    /\ (last.level <= LevelFirst \/ last.level >= LevelLast) => Writes(last.res.sink) = {}
    /\ Cardinality(Writes(last.res.sink)) <= 1

\* C1 witness: a Warn call under threshold Info has submitted its record, in a
\* process whose threshold lets it through.
C1_Witness ==
  /\ last.fn = "Warn" /\ logLevel = LevelInfo
  /\ Cardinality(Writes(last.res.sink)) = 1

\* C2 as claimed: every Critical call, under every threshold a Config can
\* carry, submits one record, flushes once and terminates the process.
C2_CriticalAlwaysFlushesAndTerminates ==
  last.fn = "Critical" =>
    /\ Len(last.res.sink) = 2
    /\ last.res.sink[1].ev = "write"
    /\ last.res.sink[2].ev = "sync"
    /\ terminated

\* C3: a leveled log call that is filtered out (level above the threshold or
\* outside the sentinels) makes no Sink call, queries no trace provider, reads
\* no context value, looks up no caller, encodes no key/value pair, and returns.
C3_FilteredCallDoesNoWork ==
  (/\ last.fn \in LogFunctions
   /\ (last.level > logLevel \/ last.level <= LevelFirst \/ last.level >= LevelLast))
  => /\ last.res.sink = <<>>
     /\ last.res.traceCalls = 0
     /\ last.res.valueCalls = 0
     /\ last.res.callerCalls = 0
     /\ last.res.parseCalls = 0
     /\ ~terminated

\* C3 witness: an Infow call with key/value pairs under threshold Error.
C3_Witness ==
  /\ last.fn = "Infow" /\ logLevel = LevelError /\ Len(last.kv) = 2
  /\ last.res.sink = <<>>

----------------------------------------------------------------------------
(* Properties of the middleware (SpecHTTP).                                *)

\* The request being served has an escaped path on the exclusion list.
OnExclusionList == \E i \in DOMAIN Excludes : req.escapedPath = Excludes[i]

InFlight == pc # "idle"

\* The part of s before the first occurrence of ch (all of s without one).
BeforeFirst(s, ch) ==
  LET hits == {i \in DOMAIN s : s[i] = ch}
  IN IF hits = {} THEN s ELSE SubSeq(s, 1, (CHOOSE j \in hits : \A k \in hits : j <= k) - 1)

\* host:port without its port: the part before the last colon.
StripPort(addr) ==
  LET hits == {i \in DOMAIN addr : addr[i] = ":"}
  IN IF hits = {} THEN addr ELSE SubSeq(addr, 1, (CHOOSE j \in hits : \A k \in hits : j >= k) - 1)

\* C4 as claimed: a request whose escaped path is on the exclusion list never
\* reaches the wrapped handler, produces no log record and keeps its headers.
C4_ExcludedNeverReachesHandler ==
  (InFlight /\ OnExclusionList) =>
    /\ handlerRuns = 0
    /\ accessLog = <<>>
    /\ req.header = arrived

\* C4 amended: a request whose escaped path is on the exclusion list produces
\* no access-log record and keeps its headers, and RequestLogger returns
\* without calling ctx.Next(); the framework then runs the wrapped handler,
\* once, after RequestLogger has returned.
C4_ExcludedNotLoggedButServed ==
  (InFlight /\ OnExclusionList) =>
    /\ accessLog = <<>>
    /\ req.header = arrived
    /\ ~mwWaiting
    /\ pc \in {"mw", "handler", "done"}
    /\ (pc = "done") => (handlerRuns = 1)
    /\ (pc \in {"mw", "handler"}) => (handlerRuns = 0)

\* C4 witness: an excluded request has been served by the wrapped handler
\* without any access-log record.
C4_Witness ==
  /\ OnExclusionList /\ pc = "done" /\ handlerRuns = 1 /\ accessLog = <<>>

\* C5: for a request off the exclusion list no access-log record is submitted
\* before the wrapped handler has returned, and when RequestLogger has
\* completed exactly one has been, at Info severity, whatever the threshold.
C5_OneInfoRecordAfterHandler ==
  (InFlight /\ ~OnExclusionList) =>
    /\ (pc \in {"mw", "handler", "resume"}) => (accessLog = <<>>)
    /\ (pc \in {"mw", "handler"}) => (handlerRuns = 0)
    /\ (pc \in {"resume", "done"}) => (handlerRuns = 1)
    /\ (pc = "done") =>
         /\ Len(accessLog) = 1
         /\ accessLog[1].ev = "write"
         /\ accessLog[1].sev = "info"
         /\ accessLog[1].msg = StrRequestLog

\* C5 witness: a logged request has completed under a threshold more severe
\* than Info.
C5_Witness ==
  /\ InFlight /\ ~OnExclusionList /\ pc = "done"
  /\ logLevel = LevelError /\ Len(accessLog) = 1

\* C6 as claimed: the derived client IP is the first comma-separated component
\* of X-Forwarded-For when that header is present and non-empty, and otherwise
\* the remote address without its port.
C6_ClientIPDerivation ==
  (InFlight /\ ~OnExclusionList /\ pc # "mw") =>
    remoteIP =
      IF arrived["X-Forwarded-For"] # <<>> /\ arrived["X-Forwarded-For"][1] # EmptyStr
        THEN BeforeFirst(arrived["X-Forwarded-For"][1], ",")
        ELSE StripPort(req.remoteAddr)

\* C10 as claimed: once RequestLogger has injected the headers, the value the
\* wrapped handler reads from true-client-ip, and the remote_ip label of the
\* access-log record, equal the derived client IP.
C10_TrueClientIPIsDerivedIP ==
  (InFlight /\ ~OnExclusionList) =>
    /\ (pc \in {"resume", "done"}) => (seenIP = remoteIP)
    /\ (pc = "done") => (accessLog[1].fields[3] = Label(StrRemoteIP, remoteIP))

----------------------------------------------------------------------------
(* Properties of parseLabels (SpecEncode).                                 *)

Encoded == encPc # "ready"

NumPairs == Len(args) \div 2
PairKey(j) == args[2 * j - 1]
PairVal(j) == args[2 * j]

\* The key of the pair is the literal "error" or the configured error-key name.
HasErrorKey(j) == PairKey(j).t = "string" /\ PairKey(j).v \in {StrError, keyError}

\* The value of the pair is an absent optional string, or an absent optional
\* byte sequence.
AbsentString(j) == PairVal(j).t = "*string" /\ PairVal(j).isnil
AbsentBytes(j) == PairVal(j).t = "*[]byte" /\ PairVal(j).isnil

\* args without its last item.
Front(a) == SubSeq(a, 1, Len(a) - 1)

\* The encodings of the first j pairs of args, each pair encoded on its own,
\* one after the other.
RECURSIVE PairByPair(_)
PairByPair(j) ==
  IF j = 0 THEN <<>> ELSE PairByPair(j - 1) \o parseLabels(<<PairKey(j), PairVal(j)>>)

\* C7: a pair under an error key yields exactly one field, named by the
\* configured error-key name and valued with the error's message, when its
\* value is an error, and no field otherwise; the pairs before and after it
\* are encoded as if it were absent.
C7_ErrorKeyPair ==
  Encoded =>
    \A j \in 1..NumPairs :
      HasErrorKey(j) =>
        fields = parseLabels(SubSeq(args, 1, 2 * j - 2))
                 \o (IF PairVal(j).t = "error"
                       THEN <<[kind |-> "label", key |-> keyError, value |-> PairVal(j).v]>>
                       ELSE <<>>)
                 \o parseLabels(SubSeq(args, 2 * j + 1, Len(args)))

\* C7 witness: "error" with an error value, followed by an ordinary pair,
\* has been encoded into the error field and the ordinary field.
C7_Witness ==
  /\ Encoded /\ Len(args) = 4 /\ keyError = StrErr
  /\ args[1] = VString(StrError) /\ args[2] = VError(<<"b">>)
  /\ args[3] = VString(StrK) /\ args[4] = VBool(TRUE)
  /\ Len(fields) = 2 /\ fields[1].key = StrErr /\ fields[1].value = <<"b">>

\* C8: the empty list encodes to no field, a list of odd length encodes to
\* what the list without its last item encodes to, and Infow/Errorw with a
\* list of odd length still submit their record, with those fields.
C8_OddLengthTruncated ==
  Encoded =>
    /\ (Len(args) = 0) => (fields = <<>>)
    /\ (Len(args) % 2 = 1) => (fields = parseLabels(Front(args)))
    /\ (encPc = "logged" /\ Len(args) % 2 = 1) =>
         /\ Len(last.res.sink) = 1
         /\ last.res.sink[1].ev = "write"
         /\ SubSeq(last.res.sink[1].fields, 3, Len(last.res.sink[1].fields))
              = parseLabels(Front(args))

\* C8 witness: a structured call with one pair and a trailing string key has
\* submitted a record with the pair's field only.
C8_Witness ==
  /\ encPc = "logged" /\ Len(args) = 3
  /\ args[1] = VString(StrK) /\ args[2] = VBool(TRUE) /\ args[3] = VString(StrK)
  /\ Len(fields) = 1
  /\ Len(last.res.sink) = 1 /\ Len(last.res.sink[1].fields) = 3

\* C9 as claimed: the fields are the encodings of the pairs in input order,
\* and every complete pair whose key is not an error key and whose value is
\* not an absent optional string yields exactly one field carrying its key.
C9_EveryPairKept ==
  Encoded =>
    /\ fields = PairByPair(NumPairs)
    /\ \A j \in 1..NumPairs :
         (~HasErrorKey(j) /\ ~AbsentString(j)) =>
           /\ Len(parseLabels(<<PairKey(j), PairVal(j)>>)) = 1
           /\ parseLabels(<<PairKey(j), PairVal(j)>>)[1].key = PairKey(j).v

\* C9 amended: the fields are the encodings of the pairs in input order
\* (duplicate keys each keeping their field), and every complete pair whose
\* key is a string other than an error key and whose value is neither an
\* absent optional string nor an absent optional byte sequence yields exactly
\* one field carrying its key.
C9_EveryStringKeyedPresentPairKept ==
  Encoded =>
    /\ fields = PairByPair(NumPairs)
    /\ \A j \in 1..NumPairs :
         (PairKey(j).t = "string" /\ ~HasErrorKey(j) /\ ~AbsentString(j) /\ ~AbsentBytes(j)) =>
           /\ Len(parseLabels(<<PairKey(j), PairVal(j)>>)) = 1
           /\ parseLabels(<<PairKey(j), PairVal(j)>>)[1].key = PairKey(j).v

\* C9 witness: two pairs under the same key have been encoded into two
\* fields, in input order.
C9_Witness ==
  /\ Encoded /\ Len(args) = 4 /\ keyError = StrErr
  /\ args[1] = VString(StrK) /\ args[2] = VInt64(0 - 5)
  /\ args[3] = VString(StrK) /\ args[4] = VBytesPtr(<<104, 105>>)
  /\ fields = <<Label(StrK, <<"-", "5">>), Label(StrK, <<"h", "i">>)>>

====
